---- MODULE Spec2Model ----
\* A model of annotatec: the declaration namespace with its lazy, memoized
\* type compiler (declarations.py) and the comment-block parser (parser.py).
\*
\* Python strings are sequences of one-character strings, so that the code's
\* character tests (name[-1] == "*", "[" in name, the array regex) are
\* computed as the code computes them.  Every other Python value is a record
\* with a field k naming its sort.  Objects that have an identity in Python
\* (declarations, compiled classes, wrappers, bound functions) carry an id.
EXTENDS Integers, Sequences, FiniteSets, TLC

\* ------------------------------------------------------------------ bounds
MaxDecls == 2        \* declarations constructed in one behaviour
MaxObjs == 2         \* compiled objects created in one behaviour
RecLimit == 5        \* stand-in for the interpreter's recursion limit
MaxSuffixes == 2     \* suffixes of the type names handed to compile
MaxUnits == 3        \* units in a block handed to add_declaration
MaxReloads == 3      \* declarations constructed in a reload scenario
MaxLine == 6         \* characters of a line handed to the tokenizer
MaxFileLines == 4    \* lines of a source handed to the extractor
MaxBlocks == 1       \* blocks handed to the parser in one behaviour

\* ------------------------------------------------------------- characters
Digits == {"0","1","2","3","4","5","6","7","8","9"}

Letters ==
    {"a","b","c","d","e","f","g","h","i","j","k","l","m",
     "n","o","p","q","r","s","t","u","v","w","x","y","z",
     "A","B","C","D","E","F","G","H","I","J","K","L","M",
     "N","O","P","Q","R","S","T","U","V","W","X","Y","Z"}

\* the class \w of the array regex
WordChars == Letters \cup Digits \cup {"_"}

Chars(s) == {s[i] : i \in 1..Len(s)}

DigitVal(c) ==
    CASE c = "0" -> 0 [] c = "1" -> 1 [] c = "2" -> 2 [] c = "3" -> 3
      [] c = "4" -> 4 [] c = "5" -> 5 [] c = "6" -> 6 [] c = "7" -> 7
      [] c = "8" -> 8 [] c = "9" -> 9

RECURSIVE StrToInt(_)
\* int(s), and eval(s), of a string of decimal digits
StrToInt(s) ==
    IF Len(s) = 0 THEN 0
    ELSE 10 * StrToInt(SubSeq(s, 1, Len(s) - 1)) + DigitVal(s[Len(s)])

\* ---------------------------------------------------------- Python values
PyNone == [k |-> "None"]
PyStr(s) == [k |-> "str", s |-> s]
PyInt(i) == [k |-> "int", v |-> i]
PyBool(b) == [k |-> "bool", b |-> b]
CPrim(c) == [k |-> "prim", c |-> c]
CPtr(t) == [k |-> "ptr", to |-> t]
CArr(t, n) == [k |-> "arr", of |-> t, len |-> n]
CStruct(id, fields) == [k |-> "struct", id |-> id, fields |-> fields]
CField(n) == [k |-> "cfield", name |-> n]
FuncPtr(id, restype, argtypes, sym) ==
    [k |-> "funcptr", id |-> id, restype |-> restype,
     argtypes |-> argtypes, sym |-> sym]
Wrapper(id, subject, d) ==
    [k |-> "wrapper", id |-> id, subject |-> subject, wrapper |-> d]
DeclRef(d) == [k |-> "decl", d |-> d]
PyOther(what) == [k |-> "other", what |-> what]

\* the values ctypes accepts as a C type
IsCType(v) == v.k \in {"prim", "ptr", "arr", "struct"}

BASE_C_TYPES ==
    <<"v","o","i","d">> :> PyNone @@
    <<"u","i","n","t","8">> :> CPrim("c_uint8") @@
    <<"u","i","n","t","1","6">> :> CPrim("c_uint16") @@
    <<"u","i","n","t","3","2">> :> CPrim("c_uint32") @@
    <<"u","i","n","t","6","4">> :> CPrim("c_uint64") @@
    <<"i","n","t","8">> :> CPrim("c_int8") @@
    <<"i","n","t","1","6">> :> CPrim("c_int16") @@
    <<"i","n","t","3","2">> :> CPrim("c_int32") @@
    <<"i","n","t","6","4">> :> CPrim("c_int64") @@
    <<"b","o","o","l">> :> CPrim("c_bool") @@
    <<"c","h","a","r">> :> CPrim("c_char") @@
    <<"w","c","h","a","r">> :> CPrim("c_wchar") @@
    <<"u","c","h","a","r">> :> CPrim("c_ubyte") @@
    <<"s","h","o","r","t">> :> CPrim("c_short") @@
    <<"u","s","h","o","r","t">> :> CPrim("c_ushort") @@
    <<"i","n","t">> :> CPrim("c_int") @@
    <<"u","i","n","t">> :> CPrim("c_uint") @@
    <<"l","o","n","g">> :> CPrim("c_long") @@
    <<"u","l","o","n","g">> :> CPrim("c_ulong") @@
    <<"l","o","n","g","l","o","n","g">> :> CPrim("c_longlong") @@
    <<"u","l","o","n","g","l","o","n","g">> :> CPrim("c_ulonglong") @@
    <<"s","t","r","i","n","g">> :> CPrim("c_char_p") @@
    <<"s","i","z","e">> :> CPrim("c_size_t") @@
    <<"s","s","i","z","e">> :> CPrim("c_ssize_t") @@
    <<"d","o","u","b","l","e">> :> CPrim("c_double") @@
    <<"l","o","n","g","_","d","o","u","b","l","e">> :> CPrim("c_longdouble") @@
    <<"f","l","o","a","t">> :> CPrim("c_float")

\* ------------------------------------------------------------------ errors
\* an exception: its class, its message, and the tag and kind the message
\* names (empty when it names none)
ErrAbout(type, msg, tag, kind) ==
    [type |-> type, msg |-> msg, tag |-> tag, kind |-> kind]
Err(type, msg) == ErrAbout(type, msg, <<>>, "")
NoErr == Err("", "")

DeclarationError(msg) == Err("DeclarationError", msg)
\* the error of a dict lookup let through, in place of the namespace's own
NamespaceError_key == Err("KeyError", "no such key")
NamespaceError == Err("NamespaceError", "no objects with such name")
ParserError(msg) == Err("ParserError", msg)
\* errors the interpreter and ctypes raise
TypeError(msg) == Err("TypeError", msg)
AttributeError(msg) == Err("AttributeError", msg)
IndexError == Err("IndexError", "string index out of range")
\* the interpreter running out of memory, in place of its recursion limit
RecursionError_memory == Err("MemoryError", "")
RecursionError == Err("RecursionError", "maximum recursion depth exceeded")

\* the outcome of a call: a returned value or a raised error, and the heap
Return(st, v) == [ok |-> TRUE, val |-> v, err |-> NoErr, st |-> st]
Raise(st, e) == [ok |-> FALSE, val |-> PyNone, err |-> e, st |-> st]

\* ------------------------------------------------------------------- state
VARIABLES
    ns,            \* DeclarationsNamespace: the dict's items, name -> id in decls
    decls,         \* every Declaration object constructed so far, by id
    nextObj,       \* the id the next compiled object gets
    last,          \* the last call on the namespace and its outcome
    declarations,  \* FileParser.declarations: name -> parser declaration
    blocks,        \* how many blocks the parser has been handed
    plast          \* the last call on the parser and its outcome

vars == <<ns, decls, nextObj, last, declarations, blocks, plast>>
nsVars == <<ns, decls, nextObj, last>>
parserVars == <<declarations, blocks, plast>>

\* the current heap, as the compile operators thread it
Heap == [decls |-> decls, nextObj |-> nextObj]

\* the exported symbols of the borrowed library
LibSymbols == {<<"f">>}

\* ------------------------------------------------- type-name expressions
\* _ARRAY_TYPE_RE.match(name): (\w+)\[(\d+)\] anchored at the start only.
\* \w+ and \d+ are greedy and what must follow them is outside their class,
\* so backtracking never finds another match.
RunLen(s, from, class) ==
    CHOOSE n \in 0..Len(s) :
        /\ \A j \in from..(from + n - 1) : j <= Len(s) /\ s[j] \in class
        /\ (from + n <= Len(s) => s[from + n] \notin class)

NoMatch == [matched |-> FALSE, type_name |-> <<>>, amount |-> <<>>]

ArrayTypeMatch(s) ==
    LET w == RunLen(s, 1, WordChars)
        d == RunLen(s, w + 2, Digits)
    IN  IF /\ w >= 1
           /\ Len(s) >= w + 1 /\ s[w + 1] = "["
           /\ d >= 1
           /\ Len(s) >= w + 2 + d /\ s[w + 2 + d] = "]"
        THEN [matched |-> TRUE,
              type_name |-> SubSeq(s, 1, w),
              amount |-> SubSeq(s, w + 2, w + 1 + d)]
        ELSE NoMatch

\* DeclarationsNamespace.unwrap
unwrap(wrapped) ==
    IF wrapped.k = "wrapper" THEN wrapped.subject ELSE wrapped

\* ctypes.POINTER(t): pointer types are cached per pointee, POINTER(None) is
\* c_void_p, anything that is not a C type is refused
POINTER(st, t) ==
    IF t.k = "None" THEN Return(st, CPrim("c_void_p"))
    ELSE IF IsCType(t) THEN Return(st, CPtr(t))
    ELSE Raise(st, TypeError("must be a ctypes type"))

\* the group the regex captured for the length: a str, never converted
ArrayAmount(m) == PyStr(m.amount)

\* t * amount on a ctypes type (or on any other object that is not a
\* MembersWrapper): defined for an int amount on a C type only
CtMul(st, t, amount) ==
    IF amount.k = "int" /\ IsCType(t) THEN Return(st, CArr(t, amount.v))
    ELSE Raise(st, TypeError("can't multiply sequence by non-int"))

\* compiled * amount, with MembersWrapper.__mul__
Mul(st, compiled, amount) ==
    IF compiled.k = "wrapper"
    THEN LET sub == CtMul(st, compiled.subject, amount)
         IN  IF ~sub.ok THEN sub
             ELSE Return([st EXCEPT !.nextObj = @ + 1],
                         Wrapper(st.nextObj, sub.val, compiled.wrapper))
    ELSE CtMul(st, compiled, amount)

\* ------------------------------------------------------------ declarations
\* A Declaration object.  inited says whether the subclass constructor ran to
\* its end: Declaration.__init__ sets name, compiled and compilation_result,
\* the attributes below them are set only after the arity validation.
\*   type    return_type / enum_type / flags_type / variable_type / old_type
\*   args    argument_types
\*   members the members dict, as the ordered sequence of its items
BlankDecl(kind, name) ==
    [kind |-> kind, name |-> name, inited |-> FALSE,
     compiled |-> FALSE, result |-> PyNone,
     type |-> PyNone, args |-> <<>>, members |-> <<>>]

DictKeys(items) == {items[i][1] : i \in 1..Len(items)}

DictGet(items, key) ==
    items[CHOOSE i \in 1..Len(items) : items[i][1] = key][2]

\* d[key] = value on an insertion-ordered dict: a known key keeps its place
DictSet(items, key, value) ==
    IF key \in DictKeys(items)
    THEN [i \in 1..Len(items) |->
            IF items[i][1] = key THEN <<key, value>> ELSE items[i]]
    ELSE Append(items, <<key, value>>)

\* a compile method that ignores its compiled flag
IsCompiled_never(rec) == FALSE

\* `if not self.compiled` of every compile method
IsCompiled(rec) == rec.compiled

\* a store of the result that forgets the flag
StoreResult_result(st, d, v) == [st EXCEPT !.decls[d].result = v]

\* self.compilation_result = result; self.compiled = True
StoreResult(st, d, v) ==
    [st EXCEPT !.decls[d].compiled = TRUE, !.decls[d].result = v]

\* ctypes.CFUNCTYPE(restype, *argtypes): the prototype class
CFUNCTYPE(st, types) ==
    IF \E i \in 2..Len(types) : ~IsCType(types[i])
    THEN Raise(st, TypeError("item in _argtypes_ has no from_param method"))
    ELSE IF ~(IsCType(types[1]) \/ types[1].k = "None")
    THEN Raise(st, TypeError("_restype_ must be a type, a callable, or None"))
    ELSE Return(st, [k |-> "proto", restype |-> types[1],
                     argtypes |-> SubSeq(types, 2, Len(types))])

\* prototype((name, lib)): binds the exported symbol, a new object each time
BindSymbol(st, proto, name) ==
    IF name \notin LibSymbols
    THEN Raise(st, AttributeError("undefined symbol"))
    ELSE Return([st EXCEPT !.nextObj = @ + 1],
                FuncPtr(st.nextObj, proto.restype, proto.argtypes, name))

\* class compiled_struct(ctypes.Structure) with the given _fields_
NewStructure(st, fields) ==
    IF \E i \in 1..Len(fields) : ~IsCType(fields[i][2])
    THEN Raise(st, TypeError("second item in _fields_ tuple must be a C type"))
    ELSE Return(st, CStruct(st.nextObj, fields))

\* MembersWrapper(subject=..., wrapper=self): a new object each time
NewWrapper(st, subject, d) ==
    Return([st EXCEPT !.nextObj = @ + 1], Wrapper(st.nextObj, subject, d))

RECURSIVE compile(_, _, _, _)
RECURSIVE DeclCompile(_, _, _)
RECURSIVE CompileList(_, _, _)

\* DeclarationsNamespace.compile(name, unwrap), called at recursion depth
\* depth on the heap st; name is a Python value, a str when the caller is
\* right about it
compile(st, name, unwrap_, depth) ==
    IF depth > RecLimit THEN Raise(st, RecursionError)
    ELSE IF name.k # "str"
    THEN Raise(st, TypeError("object is not subscriptable"))
    ELSE LET s == name.s IN
    IF Len(s) = 0 THEN Raise(st, IndexError)
    ELSE IF s[Len(s)] = "*"
    THEN LET r == compile(st, PyStr(SubSeq(s, 1, Len(s) - 1)), FALSE, depth + 1)
         IN  IF ~r.ok THEN r ELSE POINTER(r.st, unwrap(r.val))
    ELSE IF "[" \in Chars(s) /\ "]" \in Chars(s)
    THEN LET m == ArrayTypeMatch(s) IN
         IF ~m.matched
         THEN Raise(st, AttributeError("NoneType has no attribute groups"))
         ELSE LET r == compile(st, PyStr(m.type_name), FALSE, depth + 1) IN
              IF ~r.ok THEN r
              ELSE LET p == Mul(r.st, r.val, ArrayAmount(m)) IN
                   IF ~p.ok THEN p
                   ELSE Return(p.st, IF unwrap_ THEN unwrap(p.val) ELSE p.val)
    ELSE IF s \in DOMAIN BASE_C_TYPES THEN Return(st, BASE_C_TYPES[s])
    ELSE IF s \notin DictKeys(ns) THEN Raise(st, NamespaceError)
    ELSE LET obj == DictGet(ns, s) IN
         IF st.decls[obj].kind = "variable" THEN Return(st, DeclRef(obj))
         ELSE LET r == DeclCompile(st, obj, depth + 1) IN
              IF ~r.ok THEN r
              ELSE Return(r.st, IF unwrap_ THEN unwrap(r.val) ELSE r.val)

\* list(map(self.namespace.compile_unwrap, names)), left to right; the first
\* error ends it
CompileList(st, names, depth) ==
    IF Len(names) = 0 THEN Return(st, <<>>)
    ELSE LET r == compile(st, names[1], TRUE, depth) IN
         IF ~r.ok THEN r
         ELSE LET rest == CompileList(r.st, Tail(names), depth) IN
              IF ~rest.ok THEN rest
              ELSE Return(rest.st, <<r.val>> \o rest.val)

\* FunctionDeclaration.compile
FunctionCompile(st, d, depth) ==
    LET rec == st.decls[d] IN
    IF IsCompiled(rec) THEN Return(st, rec.result)
    ELSE IF ~rec.inited
    THEN Raise(st, AttributeError("object has no attribute return_type"))
    ELSE LET ts == CompileList(st, <<rec.type>> \o rec.args, depth) IN
         IF ~ts.ok THEN ts
         ELSE LET proto == CFUNCTYPE(ts.st, ts.val) IN
              IF ~proto.ok THEN proto
              ELSE LET f == BindSymbol(proto.st, proto.val, rec.name) IN
                   IF ~f.ok THEN f
                   ELSE Return(StoreResult(f.st, d, f.val), f.val)

\* StructDeclaration.compile; a declaration whose constructor raised has no
\* members attribute, and MembersDeclaration.__getattr__ then recurses on
\* self.members without end
StructCompile(st, d, depth) ==
    LET rec == st.decls[d] IN
    IF IsCompiled(rec) THEN Return(st, rec.result)
    ELSE IF ~rec.inited THEN Raise(st, RecursionError)
    ELSE LET items == rec.members
             ts == CompileList(st, [i \in 1..Len(items) |-> items[i][2]], depth)
         IN  IF ~ts.ok THEN ts
             ELSE LET cls == NewStructure(ts.st,
                                 [i \in 1..Len(items) |->
                                     <<items[i][1], ts.val[i]>>])
                  IN  IF ~cls.ok THEN cls
                      ELSE LET w == NewWrapper(cls.st, cls.val, d)
                           IN  Return(StoreResult(w.st, d, w.val), w.val)

\* EnumDeclaration.compile and FlagsDeclaration.compile
EnumCompile(st, d, depth) ==
    LET rec == st.decls[d] IN
    IF IsCompiled(rec) THEN Return(st, rec.result)
    ELSE IF ~rec.inited THEN Raise(st, RecursionError)
    ELSE LET r == compile(st, rec.type, TRUE, depth) IN
         IF ~r.ok THEN r
         ELSE LET w == NewWrapper(r.st, r.val, d)
              IN  Return(StoreResult(w.st, d, w.val), w.val)

\* TypedefDeclaration.compile
TypedefCompile(st, d, depth) ==
    LET rec == st.decls[d] IN
    IF IsCompiled(rec) THEN Return(st, rec.result)
    ELSE IF ~rec.inited
    THEN Raise(st, AttributeError("object has no attribute old_type"))
    ELSE LET r == compile(st, rec.type, FALSE, depth) IN
         IF ~r.ok THEN r
         ELSE Return(StoreResult(r.st, d, r.val), r.val)

\* VariableDeclaration.compile
VariableCompile(st, d, depth) ==
    Raise(st, TypeError("Variables cannot be used like type names"))

\* the end of var_type: the outcome r of compiling the declared type is
\* raised on, or kept on the declaration d and returned
KeepType(r, d) ==
    IF ~r.ok THEN r
    ELSE Return(StoreResult(r.st, d, r.val), r.val)

\* VariableDeclaration.var_type: the declared type, compiled once and kept
var_type(st, d) ==
    LET rec == st.decls[d] IN
    IF IsCompiled(rec) THEN Return(st, rec.result)
    ELSE IF ~rec.inited
    THEN Raise(st, AttributeError("object has no attribute variable_type"))
    ELSE KeepType(compile(st, rec.type, FALSE, 0), d)

\* obj.compile(), dispatched on the class of obj
DeclCompile(st, d, depth) ==
    IF depth > RecLimit THEN Raise(st, RecursionError)
    ELSE CASE st.decls[d].kind = "function" -> FunctionCompile(st, d, depth + 1)
           [] st.decls[d].kind = "struct" -> StructCompile(st, d, depth + 1)
           [] st.decls[d].kind \in {"enum", "flags"} -> EnumCompile(st, d, depth + 1)
           [] st.decls[d].kind = "typedef" -> TypedefCompile(st, d, depth + 1)
           [] st.decls[d].kind = "variable" -> VariableCompile(st, d, depth + 1)

\* ------------------------------------------------------------ constructors
\* the outcome of a subclass constructor after Declaration.__init__ has run
Built(rec) == [ok |-> TRUE, err |-> NoErr, rec |-> [rec EXCEPT !.inited = TRUE]]
Failed(rec, e) == [ok |-> FALSE, err |-> e, rec |-> rec]

\* a length test that looks at the first unit only
AnyLenNot_first(units, n) == Len(units) > 0 /\ Len(units[1]) # n

\* any(len(unit) != n for unit in units)
AnyLenNot(units, n) == \E i \in 1..Len(units) : Len(units[i]) # n

RECURSIVE DictOf(_)
\* {key: value for ...}: the pairs enter the dict in order
DictOf(pairs) ==
    IF Len(pairs) = 0 THEN <<>>
    ELSE DictSet(DictOf(SubSeq(pairs, 1, Len(pairs) - 1)),
                 pairs[Len(pairs)][1], pairs[Len(pairs)][2])

\* FunctionDeclaration.__init__ after super().__init__; argument_units = None
\* and [] take the same branches and are both the empty sequence here
FunctionInit(rec, return_unit, argument_units) ==
    IF Len(return_unit) # 1
    THEN Failed(rec, DeclarationError("more than one values for @return"))
    ELSE IF Len(argument_units) > 0 /\ AnyLenNot(argument_units, 1)
    THEN Failed(rec, DeclarationError("more than one values for @argument"))
    ELSE Built([rec EXCEPT
                  !.type = PyStr(return_unit[1]),
                  !.args = [i \in 1..Len(argument_units) |->
                               PyStr(argument_units[i][1])]])

\* name: type_name for type_name, name in member_units
StructMembers(member_units) ==
    DictOf([i \in 1..Len(member_units) |->
              <<member_units[i][2], PyStr(member_units[i][1])>>])

\* StructDeclaration.__init__ after super().__init__
StructInit(rec, member_units) ==
    IF AnyLenNot(member_units, 2)
    THEN Failed(rec, DeclarationError("exactly 2 values for @member"))
    ELSE Built([rec EXCEPT !.members = StructMembers(member_units)])

\* name: eval(value) for name, value in units; the values of the model are
\* decimal literals, which eval turns into their integer
EvalMembers(units) ==
    DictOf([i \in 1..Len(units) |->
              <<units[i][1], PyInt(StrToInt(units[i][2]))>>])

\* BASE_C_TYPES["int"] if not type_unit else type_unit[0]; type_unit = None
\* and () take the same branch and are both the empty sequence here
DefaultedType(type_unit) ==
    IF Len(type_unit) = 0 THEN BASE_C_TYPES[<<"i","n","t">>]
    ELSE PyStr(type_unit[1])

\* EnumDeclaration.__init__ after super().__init__
EnumInit(rec, member_units, type_unit) ==
    IF AnyLenNot(member_units, 2)
    THEN Failed(rec, DeclarationError("exactly 2 values for @member"))
    ELSE Built([rec EXCEPT !.type = DefaultedType(type_unit),
                           !.members = EvalMembers(member_units)])

\* FlagsDeclaration.__init__ after super().__init__
FlagsInit(rec, type_unit, flag_units) ==
    IF AnyLenNot(flag_units, 2)
    THEN Failed(rec, DeclarationError("exactly 2 values for @flag"))
    ELSE Built([rec EXCEPT !.type = DefaultedType(type_unit),
                           !.members = EvalMembers(flag_units)])

\* VariableDeclaration.__init__ after super().__init__
VariableInit(rec, type_unit) ==
    IF Len(type_unit) # 1
    THEN Failed(rec, DeclarationError("one value for @type"))
    ELSE Built([rec EXCEPT !.type = PyStr(type_unit[1])])

\* TypedefDeclaration.__init__ after super().__init__
TypedefInit(rec, from_type_unit) ==
    IF Len(from_type_unit) # 1
    THEN Failed(rec, DeclarationError("one value for @from_type"))
    ELSE Built([rec EXCEPT !.type = PyStr(from_type_unit[1])])

\* a registration that keeps the declaration a name already has
Register_keep(items, name, d) ==
    IF name \in DictKeys(items) THEN items ELSE Append(items, <<name, d>>)

\* namespace[name] = self in Declaration.__init__, d being the new object
Register(items, name, d) == DictSet(items, name, d)

\* ------------------------------------------------------- attribute lookup
\* the strings the model uses
s_int == <<"i","n","t">>
s_void == <<"v","o","i","d">>
s_S == <<"S">>
s_f == <<"f">>
s_x == <<"x">>
s_name == <<"n","a","m","e">>
s_RED == <<"R","E","D">>
s_GREEN == <<"G","R","E","E","N">>
s_subject == <<"s","u","b","j","e","c","t">>
s_wrapper == <<"w","r","a","p","p","e","r">>
s_namespace == <<"n","a","m","e","s","p","a","c","e">>
s_compiled == <<"c","o","m","p","i","l","e","d">>
s_compilation_result == <<"c","o","m","p","i","l","a","t","i","o","n","_","r","e","s","u","l","t">>
s_members == <<"m","e","m","b","e","r","s">>
s_type_name == <<"t","y","p","e","_","n","a","m","e">>
s_singular_units == <<"s","i","n","g","u","l","a","r","_","u","n","i","t","s">>
s_plural_units == <<"p","l","u","r","a","l","_","u","n","i","t","s">>
s_compile == <<"c","o","m","p","i","l","e">>
s_enum_type == <<"e","n","u","m","_","t","y","p","e">>
s_flags_type == <<"f","l","a","g","s","_","t","y","p","e">>
s_Sptr == <<"S","*">>
s_Sarr == <<"S","[","2","]">>
s_intarr == <<"i","n","t","[","2","]">>
s_0 == <<"0">>
s_1 == <<"1">>

KeyError == Err("KeyError", "key")

\* getattr(declaration, key) for a Struct, Enum or Flags declaration: the
\* instance and class attributes are found by the normal lookup, and only a
\* name that is none of them reaches MembersDeclaration.__getattr__
DeclAttrs(rec) ==
    (s_namespace :> PyOther("namespace")) @@
    (s_name :> PyStr(rec.name)) @@
    (s_compiled :> PyBool(rec.compiled)) @@
    (s_compilation_result :> rec.result) @@
    (s_type_name :> PyOther("type_name")) @@
    (s_singular_units :> PyOther("singular_units")) @@
    (s_plural_units :> PyOther("plural_units")) @@
    (s_compile :> PyOther("bound method compile")) @@
    (IF rec.inited THEN s_members :> PyOther("members") ELSE <<>>) @@
    (IF rec.inited /\ rec.kind = "enum" THEN s_enum_type :> rec.type ELSE <<>>) @@
    (IF rec.inited /\ rec.kind = "flags" THEN s_flags_type :> rec.type ELSE <<>>)

\* MembersDeclaration.__getattr__: self.members[key]
MembersGetattr(st, rec, key) ==
    IF ~rec.inited THEN Raise(st, RecursionError)
    ELSE IF key \in DictKeys(rec.members)
    THEN Return(st, DictGet(rec.members, key))
    ELSE Raise(st, KeyError)

DeclGetattr(st, d, key) ==
    LET rec == st.decls[d] IN
    IF key \in DOMAIN DeclAttrs(rec) THEN Return(st, DeclAttrs(rec)[key])
    ELSE MembersGetattr(st, rec, key)

\* getattr(subject, key) on the compiled native type: a structure class has
\* one descriptor per field
SubjectGetattr(st, subject, key) ==
    IF subject.k = "struct" /\ key \in DictKeys(subject.fields)
    THEN Return(st, CField(key))
    ELSE Raise(st, AttributeError("subject has no such attribute"))

\* getattr(wrapper_object, key): subject and wrapper are instance attributes,
\* everything else goes through MembersWrapper.__getattr__
WrapperGetattr(st, w, key) ==
    IF key = s_subject THEN Return(st, w.subject)
    ELSE IF key = s_wrapper THEN Return(st, DeclRef(w.wrapper))
    ELSE LET r == DeclGetattr(st, w.wrapper, key) IN
         IF ~r.ok /\ r.err = KeyError THEN SubjectGetattr(st, w.subject, key)
         ELSE r

\* ---------------------------------------------- namespace-wide operations
\* a reset that clears the flag and keeps the cached result
ResetDecl_flag(ds, d) ==
    IF ds[d].kind = "variable" THEN ds
    ELSE [ds EXCEPT ![d].compiled = FALSE]

\* DeclarationsNamespace.reset_compilation on the declaration d
ResetDecl(ds, d) ==
    IF ds[d].kind = "variable" THEN ds
    ELSE [ds EXCEPT ![d].compiled = FALSE, ![d].result = PyNone]

RECURSIVE ResetFrom(_, _)
\* DeclarationsNamespace.reset_compilations over the items left
ResetFrom(ds, items) ==
    IF Len(items) = 0 THEN ds
    ELSE ResetFrom(ResetDecl(ds, items[1][2]), Tail(items))

RECURSIVE CompileAllFrom(_, _)
\* DeclarationsNamespace.compile_all over the items left, in dict order
CompileAllFrom(st, items) ==
    IF Len(items) = 0 THEN Return(st, PyNone)
    ELSE IF st.decls[items[1][2]].kind = "variable"
    THEN CompileAllFrom(st, Tail(items))
    ELSE LET r == compile(st, PyStr(items[1][1]), FALSE, 0) IN
         IF ~r.ok THEN r ELSE CompileAllFrom(r.st, Tail(items))

\* ---------------------------------------------------- inputs of the model
DeclNames == {s_S, s_f}

\* the names the model declares each kind under: f is the exported symbol,
\* S is what the type names of the model refer to
NamesOf(kind) ==
    IF kind \in {"function", "variable", "typedef"} THEN {s_f} ELSE {s_S}

\* units with the value counts the constructors accept, and one struct unit
\* they refuse
OkMembers == << <<s_RED, s_0>>, <<s_GREEN, s_1>> >>

FunctionInputs ==
    {[single |-> <<s_int>>, plural |-> << <<s_Sptr>> >>]}

StructInputs ==
    {[single |-> <<>>, plural |-> << <<s_int, s_x>>, <<s_int, s_name>> >>],
     [single |-> <<>>, plural |-> << <<s_int>> >>]}

EnumInputs ==
    {[single |-> <<>>, plural |-> OkMembers],
     [single |-> <<s_int>>, plural |-> OkMembers]}

VariableInputs ==
    {[single |-> <<s_int>>, plural |-> <<>>]}

TypedefInputs ==
    {[single |-> <<s_int>>, plural |-> <<>>],
     [single |-> <<s_S>>, plural |-> <<>>]}

\* units of every value count from 0 to 3, for the arity validation
ArityUnits == {<<>>, <<s_int>>, <<s_int, s_x>>, <<s_int, s_x, s_x>>}

FunctionArityInputs ==
    {[single |-> r, plural |-> <<>>] : r \in ArityUnits} \cup
    {[single |-> <<s_int>>, plural |-> <<a>>] : a \in ArityUnits} \cup
    {[single |-> <<s_int>>, plural |-> << <<s_int>>, <<s_int, s_x>> >>]}

MemberArityInputs ==
    {[single |-> <<>>, plural |-> <<>>]} \cup
    {[single |-> <<>>, plural |-> <<u>>] :
        u \in {<<>>, <<s_RED>>, <<s_RED, s_0>>, <<s_RED, s_0, s_1>>}} \cup
    {[single |-> <<>>, plural |-> << <<s_RED, s_0>>, <<s_GREEN>> >>]}

SingleArityInputs == {[single |-> u, plural |-> <<>>] : u \in ArityUnits}

CompileInputs == DeclNames \cup {s_Sptr, s_Sarr, s_intarr}

\* ------------------------------------------------------------------ actions
\* the cache of a declaration that is not compiled
NotYet == [k |-> "unset"]

\* what the declaration registered under name holds as its cached result
Cached(items, ds, name) ==
    IF name \in DictKeys(items) /\ ds[DictGet(items, name)].compiled
    THEN ds[DictGet(items, name)].result
    ELSE NotYet

\* a call and its outcome; prev is the cache of the named declaration as the
\* call found it
Call(op, kind, name, single, plural, prev, ok, val, err) ==
    [op |-> op, kind |-> kind, name |-> name, single |-> single,
     plural |-> plural, prev |-> prev, cleared |-> NotYet,
     ok |-> ok, val |-> val, err |-> err]

\* what the call before this one took out of the cache of name, when that
\* call was reset_compilation(name)
JustCleared(before, name) ==
    IF before.op = "reset" /\ before.name = name THEN before.prev ELSE NotYet

NoCall == Call("init", "", <<>>, <<>>, <<>>, NotYet, TRUE, PyNone, NoErr)

\* a call on the parser and its outcome
ParserCall(op, kind, units, ok, err) ==
    [op |-> op, kind |-> kind, units |-> units, ok |-> ok, err |-> err]

Init ==
    /\ ns = <<>>
    /\ decls = <<>>
    /\ nextObj = 1
    /\ last = NoCall
    /\ declarations = <<>>
    /\ blocks = 0
    /\ plast = ParserCall("init", "", <<>>, TRUE, NoErr)

\* a constructor call: Declaration.__init__ registers the new object, then
\* the subclass constructor b validates and fills it
ConstructUpTo(limit, kind, name, in, b) ==
    /\ Len(decls) < limit
    /\ decls' = Append(decls, b.rec)
    /\ ns' = Register(ns, name, Len(decls) + 1)
    /\ last' = Call("new", kind, name, in.single, in.plural,
                    Cached(ns, decls, name), b.ok, PyNone, b.err)
    /\ UNCHANGED <<nextObj, parserVars>>

Construct(kind, name, in, b) == ConstructUpTo(MaxDecls, kind, name, in, b)

NewFunction(name, in) ==
    Construct("function", name, in,
              FunctionInit(BlankDecl("function", name), in.single, in.plural))

NewStruct(name, in) ==
    Construct("struct", name, in,
              StructInit(BlankDecl("struct", name), in.plural))

NewEnum(name, in) ==
    Construct("enum", name, in,
              EnumInit(BlankDecl("enum", name), in.plural, in.single))

NewFlags(name, in) ==
    Construct("flags", name, in,
              FlagsInit(BlankDecl("flags", name), in.single, in.plural))

NewVariable(name, in) ==
    Construct("variable", name, in,
              VariableInit(BlankDecl("variable", name), in.single))

NewTypedef(name, in) ==
    Construct("typedef", name, in,
              TypedefInit(BlankDecl("typedef", name), in.single))

\* namespace.compile(name)
Compile(name) ==
    LET r == compile(Heap, PyStr(name), FALSE, 0) IN
    /\ r.st.nextObj <= MaxObjs + 1
    /\ decls' = r.st.decls
    /\ nextObj' = r.st.nextObj
    /\ last' = [Call("compile", "", name, <<>>, <<>>,
                     Cached(ns, decls, name), r.ok, r.val, r.err)
                EXCEPT !.cleared = JustCleared(last, name)]
    /\ UNCHANGED <<ns, parserVars>>

\* namespace.compile_all()
CompileAll ==
    LET r == CompileAllFrom(Heap, ns) IN
    /\ r.st.nextObj <= MaxObjs + 1
    /\ decls' = r.st.decls
    /\ nextObj' = r.st.nextObj
    /\ last' = Call("compile_all", "", <<>>, <<>>, <<>>, NotYet,
                    r.ok, PyNone, r.err)
    /\ UNCHANGED <<ns, parserVars>>

\* namespace.reset_compilation(name); self[name] raises KeyError for a name
\* that is not registered
ResetCompilation(name) ==
    /\ IF name \in DictKeys(ns)
       THEN /\ decls' = ResetDecl(decls, DictGet(ns, name))
            /\ last' = Call("reset", "", name, <<>>, <<>>,
                            Cached(ns, decls, name), TRUE, PyNone, NoErr)
       ELSE /\ UNCHANGED decls
            /\ last' = Call("reset", "", name, <<>>, <<>>, NotYet,
                            FALSE, PyNone, KeyError)
    /\ UNCHANGED <<ns, nextObj, parserVars>>

\* namespace.reset_compilations()
ResetCompilations ==
    /\ decls' = ResetFrom(decls, ns)
    /\ last' = Call("reset_all", "", <<>>, <<>>, <<>>, NotYet,
                    TRUE, PyNone, NoErr)
    /\ UNCHANGED <<ns, nextObj, parserVars>>

\* the step of a var_type on name with the outcome r
VarTypeStep(name, r) ==
    /\ r.st.nextObj <= MaxObjs + 1
    /\ decls' = r.st.decls
    /\ nextObj' = r.st.nextObj
    /\ last' = Call("var_type", "variable", name, <<>>, <<>>,
                    Cached(ns, decls, name), r.ok, r.val, r.err)
    /\ UNCHANGED <<ns, parserVars>>

\* namespace[name].var_type, for a name registered as a Variable
VarType(name) ==
    /\ name \in DictKeys(ns)
    /\ decls[DictGet(ns, name)].kind = "variable"
    /\ VarTypeStep(name, var_type(Heap, DictGet(ns, name)))

\* ------------------------------------------------------------- the parser
\* parser.py has Declaration classes of its own; FileParser works with these
\* and keeps them in a plain dict.
w_function == <<"f","u","n","c","t","i","o","n">>
w_struct == <<"s","t","r","u","c","t">>
w_enum == <<"e","n","u","m">>
w_flags == <<"f","l","a","g","s">>
w_variable == <<"v","a","r","i","a","b","l","e">>
w_return == <<"r","e","t","u","r","n">>
w_argument == <<"a","r","g","u","m","e","n","t">>
w_member == <<"m","e","m","b","e","r">>
w_type == <<"t","y","p","e">>
w_flag == <<"f","l","a","g">>
w_bogus == <<"b","o","g","u","s">>
w_typedef == <<"t","y","p","e","d","e","f">>
w_from_type == <<"f","r","o","m","_","t","y","p","e">>

\* type_name, singular_units and plural_units of the classes in
\* parser._DECLARATIONS, in the order of that list
ParserKinds == <<"function", "struct", "enum", "flags", "variable">>

TypeNameOf(kind) ==
    CASE kind = "function" -> w_function
      [] kind = "struct" -> w_struct
      [] kind = "enum" -> w_enum
      [] kind = "flags" -> w_flags
      [] kind = "variable" -> w_variable

SingularUnits(kind) ==
    CASE kind = "function" -> {w_return}
      [] kind = "struct" -> {}
      [] kind \in {"enum", "flags", "variable"} -> {w_type}

PluralUnits(kind) ==
    CASE kind = "function" -> {w_argument}
      [] kind = "struct" -> {w_member}
      [] kind = "enum" -> {w_member}
      [] kind = "flags" -> {w_flag}
      [] kind = "variable" -> {}

RECURSIVE LStrip(_, _)
\* s.lstrip(chars)
LStrip(s, chars) ==
    IF Len(s) > 0 /\ s[1] \in chars THEN LStrip(Tail(s), chars) ELSE s

\* a declaration object of parser.py
ParserDecl(kind, name) ==
    [kind |-> kind, name |-> name, inited |-> FALSE, type |-> PyNone,
     args |-> <<>>, members |-> <<>>]

\* parser.FunctionDeclaration.__init__
ParserFunctionInit(rec, return_unit, argument_units) ==
    IF Len(return_unit) # 1
    THEN Failed(rec, ParserError("more than one values for return"))
    ELSE IF AnyLenNot(argument_units, 1)
    THEN Failed(rec, ParserError("more than one values for argument"))
    ELSE Built([rec EXCEPT
                  !.type = PyStr(return_unit[1]),
                  !.args = [i \in 1..Len(argument_units) |->
                               PyStr(argument_units[i][1])]])

\* parser.StructDeclaration.__init__: name: type_name for name, type_name
ParserStructInit(rec, member_units) ==
    IF AnyLenNot(member_units, 2)
    THEN Failed(rec, ParserError("exactly 2 values for member"))
    ELSE Built([rec EXCEPT !.members =
                  DictOf([i \in 1..Len(member_units) |->
                            <<member_units[i][1], PyStr(member_units[i][2])>>])])

\* parser.EnumDeclaration.__init__
ParserEnumInit(rec, type_unit, member_units) ==
    IF AnyLenNot(member_units, 2)
    THEN Failed(rec, ParserError("exactly 2 values for member"))
    ELSE IF Len(type_unit) = 0
    THEN Failed(rec, Err("IndexError", "tuple index out of range"))
    ELSE Built([rec EXCEPT !.type = PyStr(type_unit[1]),
                           !.members = EvalMembers(member_units)])

\* parser.FlagsDeclaration.__init__
ParserFlagsInit(rec, type_unit, flag_units) ==
    IF Len(type_unit) # 1
    THEN Failed(rec, ParserError("one value for type"))
    ELSE IF AnyLenNot(flag_units, 2)
    THEN Failed(rec, ParserError("exactly 2 values for flag"))
    ELSE Built([rec EXCEPT !.type = PyStr(type_unit[1]),
                           !.members = EvalMembers(flag_units)])

\* parser.VariableDeclaration.__init__
ParserVariableInit(rec, type_unit) ==
    IF Len(type_unit) # 1
    THEN Failed(rec, ParserError("one value for type"))
    ELSE Built([rec EXCEPT !.type = PyStr(type_unit[1])])

MissingArgument == TypeError("missing required positional argument")

\* declaration_type(name=..., **singular_units, **plural_units): a parameter
\* without a default that no unit supplied is a TypeError of the call;
\* VariableDeclaration asks for flag_units, which no unit can supply
ParserConstruct(kind, name, singular, plural) ==
    LET rec == ParserDecl(kind, name)
        has1(f) == f \in DictKeys(singular)
        hasN(f) == f \in DictKeys(plural)
    IN CASE kind = "function" ->
              IF has1(w_return) /\ hasN(w_argument)
              THEN ParserFunctionInit(rec, DictGet(singular, w_return),
                                      DictGet(plural, w_argument))
              ELSE Failed(rec, MissingArgument)
         [] kind = "struct" ->
              IF hasN(w_member)
              THEN ParserStructInit(rec, DictGet(plural, w_member))
              ELSE Failed(rec, MissingArgument)
         [] kind = "enum" ->
              IF has1(w_type) /\ hasN(w_member)
              THEN ParserEnumInit(rec, DictGet(singular, w_type),
                                  DictGet(plural, w_member))
              ELSE Failed(rec, MissingArgument)
         [] kind = "flags" ->
              IF has1(w_type) /\ hasN(w_flag)
              THEN ParserFlagsInit(rec, DictGet(singular, w_type),
                                   DictGet(plural, w_flag))
              ELSE Failed(rec, MissingArgument)
         [] kind = "variable" -> Failed(rec, MissingArgument)

MissingName(kind) ==
    ErrAbout("ParserError", "does not have a name", <<>>, kind)
\* an error that names the tag without its leading @
UnknownUnit_stripped(unit_name, kind) ==
    ErrAbout("ParserError", "Unknown unit type", LStrip(unit_name, {"@"}), kind)

\* ParserError(f"Unknown unit type {unit_name} for {declaration_type}")
UnknownUnit(unit_name, kind) ==
    ErrAbout("ParserError", "Unknown unit type", unit_name, kind)

\* the grouping add_declaration has done so far
NoUnits == [singular |-> <<>>, plural |-> <<>>, name |-> PyNone]

RECURSIVE GroupUnits(_, _, _)
\* the loop of add_declaration over the units left; the first unit that
\* raises ends it
\* (the dicts are keyed by the tag; the code's keys stripped + "_unit" and
\* stripped + "_units" are the constructors' parameter names for the tags)
GroupUnits(kind, units, acc) ==
    IF Len(units) = 0 THEN [ok |-> TRUE, err |-> NoErr, acc |-> acc]
    ELSE LET unit_name == units[1][1]
             unit_values == units[1][2]
             stripped == LStrip(unit_name, {"@"})
         IN  IF stripped = TypeNameOf(kind)
             THEN IF Len(unit_values) = 0
                  THEN [ok |-> FALSE, err |-> MissingName(kind), acc |-> acc]
                  ELSE GroupUnits(kind, Tail(units),
                          [acc EXCEPT !.name = PyStr(unit_values[1])])
             ELSE IF stripped \in SingularUnits(kind)
             THEN GroupUnits(kind, Tail(units),
                     [acc EXCEPT !.singular = DictSet(@, stripped, unit_values)])
             ELSE IF stripped \in PluralUnits(kind)
             THEN GroupUnits(kind, Tail(units),
                     [acc EXCEPT !.plural =
                        DictSet(@, stripped,
                          IF stripped \in DictKeys(@)
                          THEN Append(DictGet(@, stripped), unit_values)
                          ELSE <<unit_values>>)])
             ELSE [ok |-> FALSE, err |-> UnknownUnit(unit_name, kind),
                   acc |-> acc]

\* FileParser.add_declaration(declaration_type, units): the outcome and the
\* declarations dict it leaves
add_declaration(items, kind, units) ==
    LET g == GroupUnits(kind, units, NoUnits) IN
    IF ~g.ok THEN [ok |-> FALSE, err |-> g.err, declarations |-> items]
    ELSE LET b == ParserConstruct(kind, g.acc.name, g.acc.singular,
                                  g.acc.plural)
         IN  IF ~b.ok THEN [ok |-> FALSE, err |-> b.err, declarations |-> items]
             ELSE [ok |-> TRUE, err |-> NoErr,
                   declarations |-> DictSet(items, b.rec.name, b.rec)]

\* the units of the model's blocks for a kind: its own tag with and without
\* a name, its fields, a tag it does not know
OwnUnits(kind) ==
    {<<<<"@">> \o TypeNameOf(kind), <<s_S>>>>,
     <<<<"@">> \o TypeNameOf(kind), <<>>>>}

UnitPool(kind) ==
    OwnUnits(kind) \cup
    {<<<<"@">> \o w_bogus, <<s_x>>>>} \cup
    {<<<<"@">> \o f, <<s_int>>>> : f \in SingularUnits(kind)} \cup
    {<<<<"@">> \o f, IF kind = "function" THEN <<s_int>> ELSE <<s_x, s_1>>>> :
        f \in PluralUnits(kind)}

RECURSIVE SeqsUpTo(_, _)
\* the sequences over S of length at most n
SeqsUpTo(S, n) ==
    IF n = 0 THEN {<<>>}
    ELSE LET shorter == SeqsUpTo(S, n - 1)
         IN  shorter \cup {Append(q, x) : q \in shorter, x \in S}

\* a block starts with the line that carries the kind's tag
Blocks(kind) ==
    {<<first>> \o rest :
        first \in OwnUnits(kind),
        rest \in SeqsUpTo(UnitPool(kind), MaxUnits - 1)}

\* self.add_declaration(declaration_type, units)
AddDeclaration(kind, units) ==
    LET r == add_declaration(declarations, kind, units) IN
    /\ blocks < MaxBlocks
    /\ blocks' = blocks + 1
    /\ declarations' = r.declarations
    /\ plast' = ParserCall("add_declaration", kind, units, r.ok, r.err)
    /\ UNCHANGED nsVars

NextParser ==
    \E i \in 1..Len(ParserKinds) :
        \E units \in Blocks(ParserKinds[i]) :
            AddDeclaration(ParserKinds[i], units)

SpecParser == Init /\ [][NextParser]_vars

\* ----------------------------------------------------------- the tokenizer
Whitespace == {" ", "\n"}

\* the locals of parse_line_units before its loop
ScanStart ==
    [units_type_name |-> <<>>, units |-> <<>>, char_buffer |-> <<>>,
     bracket_prev_stack_counter |-> 0, bracket_stack_counter |-> 0,
     parsing_unit_type_name |-> FALSE]

\* flush_buffer(): the buffer, when it holds anything, becomes the next unit
flush_buffer(t) ==
    IF Len(t.char_buffer) = 0 THEN t
    ELSE [t EXCEPT !.units = Append(@, t.char_buffer), !.char_buffer = <<>>]

\* the brackets and the append at the end of the loop body
AppendChar(t, char) ==
    LET counted ==
          IF char = "("
          THEN [t EXCEPT
                  !.bracket_prev_stack_counter = t.bracket_stack_counter,
                  !.bracket_stack_counter = @ + 1]
          ELSE IF char = ")"
          THEN [t EXCEPT
                  !.bracket_prev_stack_counter = t.bracket_stack_counter,
                  !.bracket_stack_counter = @ - 1]
          ELSE t
    IN  [counted EXCEPT !.char_buffer = Append(@, char)]

\* one pass of the loop of parse_line_units
ScanChar(t0, char) ==
    LET t == IF char = "@" THEN [t0 EXCEPT !.parsing_unit_type_name = TRUE]
             ELSE t0
    IN  IF char \in Whitespace
        THEN IF t.parsing_unit_type_name
             THEN [t EXCEPT !.parsing_unit_type_name = FALSE,
                            !.units_type_name = t.char_buffer,
                            !.char_buffer = <<>>]
             ELSE IF t.bracket_stack_counter = 0
                     /\ t.bracket_prev_stack_counter # 0
             THEN [flush_buffer(t) EXCEPT
                     !.bracket_prev_stack_counter = t.bracket_stack_counter]
             ELSE IF t.bracket_stack_counter = 0
                     /\ t.bracket_prev_stack_counter = 0
             THEN flush_buffer(t)
             ELSE AppendChar(t, char)
        ELSE AppendChar(t, char)

RECURSIVE ScanChars(_, _)
\* the loop over the characters left
ScanChars(t, chars) ==
    IF Len(chars) = 0 THEN t
    ELSE ScanChars(ScanChar(t, chars[1]), Tail(chars))

\* FileParser.parse_line_units(line): the tag and the tuple of values
parse_line_units(line) ==
    LET t == ScanChars(ScanStart, line \o <<"\n">>)
    IN  [tag |-> t.units_type_name, values |-> t.units]

\* the lines of the model: every sequence of these characters
LineChars == {"@", "a", " ", "(", ")"}
Lines == SeqsUpTo(LineChars, MaxLine)

\* a line about to be tokenized
LineRead(line) ==
    [op |-> "line", kind |-> "", units |-> <<>>, ok |-> TRUE, err |-> NoErr,
     line |-> line, unit |-> [tag |-> <<>>, values |-> <<>>]]

InitTokens ==
    /\ ns = <<>>
    /\ decls = <<>>
    /\ nextObj = 1
    /\ last = NoCall
    /\ declarations = <<>>
    /\ blocks = 0
    /\ plast \in {LineRead(line) : line \in Lines}

\* self.parse_line_units(line)
ParseLineUnits ==
    /\ plast.op = "line"
    /\ plast' = [plast EXCEPT !.op = "parse_line_units",
                              !.unit = parse_line_units(plast.line)]
    /\ UNCHANGED <<nsVars, declarations, blocks>>

SpecTokens == InitTokens /\ [][ParseLineUnits]_vars

\* ------------------------------------------- the comment block extractor
StartsWith(line, prefix) ==
    Len(line) >= Len(prefix) /\ SubSeq(line, 1, Len(prefix)) = prefix

Contains(line, part) ==
    \E i \in 1..(Len(line) - Len(part) + 1) :
        SubSeq(line, i, i + Len(part) - 1) = part

\* _COMMENT_START_RE.match(line): the line begins with the opening marker
CommentStart(line) == StartsWith(line, <<"/", "*">>)

\* how many characters of the class end the first n characters of line
TrailLen(line, n, class) ==
    CHOOSE k \in 0..n :
        /\ \A j \in (n - k + 1)..n : line[j] \in class
        /\ (k < n => line[n - k] \notin class)

\* _COMMENT_END_RE.match(line): whitespace, the closing marker, the end
CommentEnd(line) ==
    /\ Len(line) >= 2
    /\ SubSeq(line, Len(line) - 1, Len(line)) = <<"*", "/">>
    /\ TrailLen(line, Len(line) - 2, Whitespace) = Len(line) - 2

\* re.sub(_COMMENT_END_RE, "", line): a closing marker at the end of the
\* line goes, with the whitespace before it
StripCommentEnd(line) ==
    IF Len(line) >= 2 /\ SubSeq(line, Len(line) - 1, Len(line)) = <<"*", "/">>
    THEN SubSeq(line, 1,
                Len(line) - 2 - TrailLen(line, Len(line) - 2, Whitespace))
    ELSE line

\* what declaration_type holds before the first assignment, and None
Unbound == "unbound"
NoKind == "none"

RECURSIVE FirstKind(_, _)
\* FileParser.check_declaration(line): the first class of _DECLARATIONS
\* whose tag the line contains
FirstKind(line, kinds) ==
    IF Len(kinds) = 0 THEN NoKind
    ELSE IF Contains(line, <<"@">> \o TypeNameOf(kinds[1])) THEN kinds[1]
    ELSE FirstKind(line, Tail(kinds))

check_declaration(line) == FirstKind(line, ParserKinds)

RECURSIVE ParseLines(_, _)
\* the loop of parse_declaration over the lines left
ParseLines(lines, t) ==
    IF Len(lines) = 0 THEN t
    ELSE LET line == lines[1]
             stripped == LStrip(line, {"/", "*", " "})
         IN  IF Len(stripped) = 0 THEN ParseLines(Tail(lines), t)
             ELSE LET found == IF t.start_parsing THEN t.declaration_type
                               ELSE check_declaration(line)
                      started == t.start_parsing \/ found # NoKind
                      unit == parse_line_units(stripped)
                  IN  ParseLines(Tail(lines),
                        [declaration_type |-> found,
                         start_parsing |-> started,
                         units |-> IF started
                                   THEN Append(t.units,
                                               <<unit.tag, unit.values>>)
                                   ELSE t.units])

\* FileParser.parse_declaration(lines): the outcome and the declarations it
\* leaves; a block with no line left after stripping never assigns
\* declaration_type
parse_declaration(items, lines) ==
    LET t == ParseLines(lines, [declaration_type |-> Unbound,
                                start_parsing |-> FALSE, units |-> <<>>])
    IN  IF t.declaration_type = Unbound
        THEN [ok |-> FALSE, declarations |-> items,
              err |-> Err("UnboundLocalError", "declaration_type")]
        ELSE IF t.declaration_type = NoKind
        THEN [ok |-> TRUE, err |-> NoErr, declarations |-> items]
        ELSE add_declaration(items, t.declaration_type, t.units)

\* the locals of scrap_file_declarations before its loop, with the buffers
\* parse_declaration has been called on
ScrapStart(items) ==
    [declaration_buffer |-> <<>>, inside_declaration |-> FALSE,
     declarations |-> items, handed |-> <<>>, ok |-> TRUE, err |-> NoErr]

RECURSIVE ScrapLines(_, _)
\* the loop of scrap_file_declarations over the lines left; an error of
\* the loop body ends it
ScrapLines(lines, t) ==
    IF Len(lines) = 0 \/ ~t.ok THEN t
    ELSE LET line == lines[1]
             inside == t.inside_declaration \/ CommentStart(line)
             buffer == IF inside THEN Append(t.declaration_buffer, line)
                       ELSE t.declaration_buffer
         IN  IF ~CommentEnd(line)
             THEN ScrapLines(Tail(lines),
                    [t EXCEPT !.inside_declaration = inside,
                              !.declaration_buffer = buffer])
             ELSE IF Len(buffer) = 0
             THEN [t EXCEPT !.inside_declaration = FALSE,
                            !.ok = FALSE, !.err = IndexError]
             ELSE LET block == [buffer EXCEPT ![Len(buffer)] =
                                   StripCommentEnd(@)]
                      r == parse_declaration(t.declarations, block)
                  IN  ScrapLines(Tail(lines),
                        [declaration_buffer |->
                             IF r.ok THEN <<>> ELSE block,
                         inside_declaration |-> FALSE,
                         declarations |-> r.declarations,
                         handed |-> Append(t.handed, block),
                         ok |-> r.ok, err |-> r.err])

\* FileParser.scrap_file_declarations(file), the file given by its lines
scrap_file_declarations(items, lines) == ScrapLines(lines, ScrapStart(items))

\* lines of source text
l_open == <<"/", "*">>
l_open_indented == <<" ", "/", "*">>
l_close == <<"*", "/">>
l_struct == <<"@">> \o w_struct \o <<" ">> \o s_S
l_member == <<"@">> \o w_member \o <<" ">> \o s_int \o <<" ">> \o s_x
l_oneline == l_open \o <<" ">> \o l_struct \o <<" ">> \o l_close

\* the sources of the model: every sequence of these lines
SourceLines == {l_open, l_open_indented, l_close, l_struct, l_member,
                l_oneline}
Sources == SeqsUpTo(SourceLines, MaxFileLines)

\* a line of a tag and its values
TagLine(tag, values) ==
    <<"@">> \o tag \o
    (IF Len(values) = 0 THEN <<>> ELSE <<" ">> \o values[1]) \o
    (IF Len(values) < 2 THEN <<>> ELSE <<" ">> \o values[2])

\* the six kind tags of the annotation grammar
KindTags == {w_function, w_struct, w_enum, w_flags, w_variable, w_typedef}

\* for each kind tag a block of its own: the tag with the name S and the
\* fields the kind cannot do without
KindFields(tag) ==
    CASE tag = w_function -> <<TagLine(w_return, <<s_int>>),
                               TagLine(w_argument, <<s_int>>)>>
      [] tag = w_struct -> <<TagLine(w_member, <<s_int, s_x>>)>>
      [] tag = w_enum -> <<TagLine(w_member, <<s_RED, s_0>>)>>
      [] tag = w_flags -> <<TagLine(w_flag, <<s_RED, s_0>>)>>
      [] tag = w_variable -> <<TagLine(w_type, <<s_int>>)>>
      [] tag = w_typedef -> <<TagLine(w_from_type, <<s_int>>)>>

KindSource(tag) ==
    <<l_open, TagLine(tag, <<s_S>>)>> \o KindFields(tag) \o <<l_close>>

KindSources == {KindSource(tag) : tag \in KindTags}

\* a source about to be scanned
FileRead(lines) ==
    [op |-> "file", kind |-> "", units |-> <<>>, ok |-> TRUE, err |-> NoErr,
     lines |-> lines, handed |-> <<>>]

\* self.scrap_file_declarations(file)
ScrapFile ==
    /\ plast.op = "file"
    /\ LET r == scrap_file_declarations(declarations, plast.lines) IN
       /\ declarations' = r.declarations
       /\ plast' = [plast EXCEPT !.op = "scrap_file_declarations",
                                 !.handed = r.handed,
                                 !.ok = r.ok, !.err = r.err]
    /\ UNCHANGED <<nsVars, blocks>>

InitFiles ==
    /\ ns = <<>>
    /\ decls = <<>>
    /\ nextObj = 1
    /\ last = NoCall
    /\ declarations = <<>>
    /\ blocks = 0
    /\ plast \in {FileRead(lines) : lines \in Sources \cup KindSources}

SpecFiles == InitFiles /\ [][ScrapFile]_vars

Next ==
    \/ \E name \in NamesOf("function"), in \in FunctionInputs :
          NewFunction(name, in)
    \/ \E name \in NamesOf("struct"), in \in StructInputs : NewStruct(name, in)
    \/ \E name \in NamesOf("enum"), in \in EnumInputs : NewEnum(name, in)
    \/ \E name \in NamesOf("flags"), in \in EnumInputs : NewFlags(name, in)
    \/ \E name \in NamesOf("variable"), in \in VariableInputs :
          NewVariable(name, in)
    \/ \E name \in NamesOf("typedef"), in \in TypedefInputs :
          NewTypedef(name, in)
    \/ \E name \in CompileInputs : Compile(name)
    \/ CompileAll
    \/ \E name \in DeclNames : ResetCompilation(name)
    \/ ResetCompilations
    \/ \E name \in NamesOf("variable") : VarType(name)

Spec == Init /\ [][Next]_vars

\* ------------------------------------------------- type names on their own
\* the suffixes of the type-name grammar, with a one- and a two-digit length
Suffixes == {<<"*">>, <<"[","2","]">>, <<"[","1","0","]">>}

RECURSIVE Concat(_)
Concat(ss) == IF Len(ss) = 0 THEN <<>> ELSE ss[1] \o Concat(Tail(ss))

\* a primitive followed by suffixes
TypeName(p, sfx) == p \o Concat(sfx)

\* compile on the type names built from every primitive
NextTypes ==
    \E p \in DOMAIN BASE_C_TYPES, sfx \in SeqsUpTo(Suffixes, MaxSuffixes) :
        Compile(TypeName(p, sfx))

SpecTypes == Init /\ [][NextTypes]_vars

\* the constructors on units of every value count, with compile and reset of
\* the declared names in between
NextBuild ==
    \/ \E name \in NamesOf("function"), in \in FunctionArityInputs :
          NewFunction(name, in)
    \/ \E name \in NamesOf("struct"), in \in MemberArityInputs :
          NewStruct(name, in)
    \/ \E name \in NamesOf("enum"), in \in MemberArityInputs : NewEnum(name, in)
    \/ \E name \in NamesOf("flags"), in \in MemberArityInputs :
          NewFlags(name, in)
    \/ \E name \in NamesOf("variable"), in \in SingleArityInputs :
          NewVariable(name, in)
    \/ \E name \in NamesOf("typedef"), in \in SingleArityInputs :
          NewTypedef(name, in)
    \/ \E name \in DeclNames : Compile(name)

SpecBuild == Init /\ [][NextBuild]_vars

\* ---------------------------------------------------- reload scenarios
\* a struct, a variable of the struct's type and a typedef that takes the
\* name of a primitive, declared and re-declared, with compile_all,
\* reset_compilations and var_type in between
ReloadStruct == [single |-> <<>>, plural |-> << <<s_int, s_x>> >>]
ReloadVariable == [single |-> <<s_S>>, plural |-> <<>>]
ReloadTypedef == [single |-> <<s_int>>, plural |-> <<>>]

NextReload ==
    \/ ConstructUpTo(MaxReloads, "struct", s_S, ReloadStruct,
                     StructInit(BlankDecl("struct", s_S), ReloadStruct.plural))
    \/ ConstructUpTo(MaxReloads, "variable", s_f, ReloadVariable,
                     VariableInit(BlankDecl("variable", s_f),
                                  ReloadVariable.single))
    \/ ConstructUpTo(MaxReloads, "typedef", s_int, ReloadTypedef,
                     TypedefInit(BlankDecl("typedef", s_int),
                                 ReloadTypedef.single))
    \/ CompileAll
    \/ ResetCompilations
    \/ VarType(s_f)

SpecReload == Init /\ [][NextReload]_vars

\* ------------------------------------------------- cyclic declarations
\* declarations that refer to themselves or to each other, and one that
\* does not: a struct with a member of type pointer to itself, a struct of an
\* int, two typedefs aliasing each other, a typedef of itself
CycleInputs ==
    {[kind |-> "struct", name |-> s_S,
      in |-> [single |-> <<>>, plural |-> << <<s_Sptr, s_x>> >>]],
     [kind |-> "struct", name |-> s_S,
      in |-> [single |-> <<>>, plural |-> << <<s_int, s_x>> >>]],
     [kind |-> "typedef", name |-> s_S,
      in |-> [single |-> <<s_f>>, plural |-> <<>>]],
     [kind |-> "typedef", name |-> s_f,
      in |-> [single |-> <<s_S>>, plural |-> <<>>]],
     [kind |-> "typedef", name |-> s_f,
      in |-> [single |-> <<s_f>>, plural |-> <<>>]]}

CycleNames == {s_S, s_f, s_Sptr}

NextCycles ==
    \/ \E c \in CycleInputs :
          ConstructUpTo(MaxReloads, c.kind, c.name, c.in,
                        IF c.kind = "struct"
                        THEN StructInit(BlankDecl("struct", c.name), c.in.plural)
                        ELSE TypedefInit(BlankDecl("typedef", c.name),
                                         c.in.single))
    \/ \E name \in CycleNames : Compile(name)

SpecCycles == Init /\ [][NextCycles]_vars

\* ------------------------------------------------------------- properties
\* the error kinds of the specification, as the code raises them
IsArityError(e) == e.type = "DeclarationError"
IsUsageError(e) ==
    e = TypeError("Variables cannot be used like type names")
IsUnknownFieldError(e) == e.type = "ParserError" /\ e.msg = "Unknown unit type"
IsMissingNameError(e) == e.type = "ParserError" /\ e.msg = "does not have a name"

\* the declaration registered under the name of the last call
Registered(name) == name \in DictKeys(ns)
DeclOf(name) == decls[DictGet(ns, name)]

CompiledDeclared ==
    /\ last.op = "compile"
    /\ Registered(last.name)

\* C1 (cache): compile(n) on a non-Variable declaration that is Compiled
\* returns the identical object the cache holds, and a successful compile(n)
\* leaves its result in the cache, so that two compile(n) with no reset(n)
\* between them return the identical object.
C1_Cached ==
    (CompiledDeclared /\ last.ok /\ DeclOf(last.name).kind # "variable") =>
        /\ (last.prev # NotYet => last.val = last.prev)
        /\ Cached(ns, decls, last.name) = last.val

C2_VariableRaises ==
    (CompiledDeclared /\ DeclOf(last.name).kind = "variable") =>
        (~last.ok /\ IsUsageError(last.err))

\* the shape a suffix adds around the shape inside it
SuffixShape(inner, suffix) ==
    IF suffix = <<"*">>
    THEN (IF inner.k = "None" THEN CPrim("c_void_p") ELSE CPtr(inner))
    ELSE CArr(inner, StrToInt(SubSeq(suffix, 2, Len(suffix) - 1)))

RECURSIVE Shape(_, _)
\* the suffixes applied one by one, the first innermost
Shape(inner, sfx) ==
    IF Len(sfx) = 0 THEN inner
    ELSE Shape(SuffixShape(inner, sfx[1]), Tail(sfx))

\* C3: compile of a primitive followed by any suffixes returns the shape in
\* which every suffix is one pointer or array level, the first suffix
\* innermost and the last outermost.
C3_SuffixesApplied ==
    \A p \in DOMAIN BASE_C_TYPES \ {s_void} :
        \A sfx \in SeqsUpTo(Suffixes, MaxSuffixes) :
            (last.op = "compile" /\ last.name = TypeName(p, sfx)) =>
                (last.ok /\ last.val = Shape(BASE_C_TYPES[p], sfx))

\* the struct S is registered and built
StructRegistered ==
    /\ Registered(s_S)
    /\ DeclOf(s_S).kind = "struct" /\ DeclOf(s_S).inited

\* C4: compile("T[N]") is an array of N elements of T's native type and
\* compile("T*") a pointer to T's unwrapped native type, for the primitive
\* int and the registered struct S, with N = 2.
C4_ArrayAndPointer ==
    /\ (last.op = "compile" /\ last.name = s_intarr) =>
          (last.ok /\ last.val = CArr(BASE_C_TYPES[s_int], 2))
    /\ (last.op = "compile" /\ last.name = s_Sarr /\ StructRegistered) =>
          (/\ last.ok
           /\ unwrap(last.val) = CArr(unwrap(Cached(ns, decls, s_S)), 2))
    /\ (last.op = "compile" /\ last.name = s_Sptr /\ StructRegistered) =>
          (/\ last.ok
           /\ last.val = CPtr(unwrap(Cached(ns, decls, s_S))))

\* the value counts the specification requires of a constructor's units
RequiredCounts(kind, single, plural) ==
    IF kind = "function"
    THEN Len(single) = 1 /\ \A i \in 1..Len(plural) : Len(plural[i]) = 1
    ELSE \A i \in 1..Len(plural) : Len(plural[i]) = 2

\* C5: constructing a Function, Struct, Enum or Flags raises ArityError
\* exactly when a return or argument unit has not one value, or a member or
\* flag unit has not two.
C5_ArityValidated ==
    (last.op = "new" /\ last.kind \in {"function", "struct", "enum", "flags"})
        => (IsArityError(last.err)
              <=> ~RequiredCounts(last.kind, last.single, last.plural))

\* a Function was refused for its second argument unit alone
C5_Witness ==
    /\ last.op = "new" /\ last.kind = "function"
    /\ IsArityError(last.err)
    /\ Len(last.plural) = 2 /\ Len(last.plural[1]) = 1

\* C6: a constructor that raises ArityError leaves the namespace unchanged.
C6_FailedNotRegistered ==
    [][(last'.op = "new" /\ IsArityError(last'.err)) => ns' = ns]_vars

\* the greatest id among the declarations constructed under a name
LatestOf(name) ==
    CHOOSE i \in 1..Len(decls) :
        /\ decls[i].name = name
        /\ \A j \in 1..Len(decls) : decls[j].name = name => j <= i

\* C8: after successful registrations only, every name maps to one
\* declaration, the one registered last under it, and the declaration just
\* registered is Uncompiled with no cached result.
C8_LastWriteWins ==
    (\A i \in 1..Len(decls) : decls[i].inited) =>
        /\ Cardinality(DictKeys(ns)) = Len(ns)
        /\ DictKeys(ns) = {decls[i].name : i \in 1..Len(decls)}
        /\ \A n \in DictKeys(ns) : DictGet(ns, n) = LatestOf(n)
        /\ last.op = "new" =>
              /\ DeclOf(last.name).kind = last.kind
              /\ ~DeclOf(last.name).compiled
              /\ DeclOf(last.name).result = PyNone

\* a declaration registered over a compiled one of another kind
C8_Witness ==
    /\ \A i \in 1..Len(decls) : decls[i].inited
    /\ last.op = "new" /\ last.ok /\ last.prev # NotYet
    /\ Len(decls) = 2 /\ decls[1].name = decls[2].name
    /\ decls[1].kind # decls[2].kind

\* C9: an Enum or Flags built without a type unit compiles to a wrapper over
\* the native int, and every member looked up on it gives its value.
C9_DefaultIntEnum ==
    (/\ CompiledDeclared
     /\ DeclOf(last.name).kind \in {"enum", "flags"}
     /\ DeclOf(last.name).inited
     /\ DeclOf(last.name).type.k # "str") =>
        /\ last.ok
        /\ last.val.k = "wrapper"
        /\ last.val.subject = BASE_C_TYPES[s_int]
        /\ \A m \in DictKeys(DeclOf(last.name).members) :
              WrapperGetattr(Heap, last.val, m) =
                  Return(Heap, DictGet(DeclOf(last.name).members, m))

\* C10: the wrapper of a compiled Struct has the members in declared order,
\* and every member name looked up on it gives the member's type name.
C10_StructMembers ==
    (/\ CompiledDeclared /\ last.ok
     /\ DeclOf(last.name).kind = "struct") =>
        LET members == DeclOf(last.name).members IN
        /\ last.val.k = "wrapper"
        /\ [i \in 1..Len(last.val.subject.fields) |->
               last.val.subject.fields[i][1]]
             = [i \in 1..Len(members) |-> members[i][1]]
        /\ \A i \in 1..Len(members) :
              WrapperGetattr(Heap, last.val, members[i][1]) =
                  Return(Heap, members[i][2])

\* a unit's tag is the kind's own tag or one of its fields
Recognized(kind, unit_name) ==
    LET stripped == LStrip(unit_name, {"@"}) IN
    \/ stripped = TypeNameOf(kind)
    \/ stripped \in SingularUnits(kind)
    \/ stripped \in PluralUnits(kind)

Unknowns(kind, units) ==
    {i \in 1..Len(units) : ~Recognized(kind, units[i][1])}

FirstUnknown(kind, units) ==
    CHOOSE i \in Unknowns(kind, units) :
        \A j \in Unknowns(kind, units) : i <= j

\* a unit with the kind's own tag and no value comes before position i
NamelessBefore(kind, units, i) ==
    \E j \in 1..(i - 1) :
        /\ LStrip(units[j][1], {"@"}) = TypeNameOf(kind)
        /\ Len(units[j][2]) = 0

AddedUnknown ==
    /\ plast.op = "add_declaration"
    /\ Unknowns(plast.kind, plast.units) # {}

\* C7 (as stated): a block with a unit of an unrecognized tag raises
\* UnknownFieldError naming the tag and the kind.
C7_UnknownFieldRaised ==
    AddedUnknown =>
        /\ ~plast.ok
        /\ IsUnknownFieldError(plast.err)
        /\ plast.err.kind = plast.kind
        /\ \E i \in Unknowns(plast.kind, plast.units) :
              plast.err.tag = plast.units[i][1]

\* C7 (amended): such a block raises UnknownFieldError naming its first
\* unrecognized tag and the kind, unless a unit with the kind's own tag and
\* no name comes before it, which raises MissingNameError; either way the
\* block registers no declaration.
C7_UnknownOrNameless ==
    /\ [](AddedUnknown =>
            LET i == FirstUnknown(plast.kind, plast.units) IN
            /\ ~plast.ok
            /\ IF NamelessBefore(plast.kind, plast.units, i)
               THEN IsMissingNameError(plast.err)
               ELSE /\ IsUnknownFieldError(plast.err)
                    /\ plast.err.kind = plast.kind
                    /\ plast.err.tag = plast.units[i][1])
    /\ [][AddedUnknown' /\ blocks' # blocks
            => declarations' = declarations]_vars

\* a struct block with a member and then an unknown tag was refused
C7_Witness ==
    /\ AddedUnknown
    /\ plast.kind = "struct"
    /\ Len(plast.units) = 3
    /\ FirstUnknown(plast.kind, plast.units) = 3
    /\ IsUnknownFieldError(plast.err)

\* every declaration the namespace holds that is not a Variable is Compiled
AllCompiled ==
    \A n \in DictKeys(ns) :
        DeclOf(n).kind # "variable" => DeclOf(n).compiled

\* C11: after compile_all() returns without error every non-Variable
\* declaration of the namespace is Compiled, whatever its name, and a
\* compile_all() right after it changes no compiled flag and no cached
\* result.
C11_CompileAllCompiles ==
    /\ []((last.op = "compile_all" /\ last.ok) => AllCompiled)
    /\ [][(last.op = "compile_all" /\ last.ok /\ last'.op = "compile_all")
            => decls' = decls]_vars

\* the declaration d as a reset leaves it
Uncompiled(rec) == [rec EXCEPT !.compiled = FALSE, !.result = PyNone]

\* C12: reset(n) sets exactly the declaration registered under n to
\* Uncompiled with no cached result, or changes nothing when it is a
\* Variable, and leaves every other declaration as it was; reset_all()
\* leaves every registered non-Variable declaration Uncompiled with no cached
\* result and every Variable as it was; neither changes the mapping from
\* names to declarations.
C12_ResetFrame ==
    [][/\ (last'.op = "reset" /\ last'.ok) =>
            LET d == DictGet(ns, last'.name) IN
            /\ ns' = ns
            /\ decls' = [decls EXCEPT ![d] =
                            IF decls[d].kind = "variable" THEN decls[d]
                            ELSE Uncompiled(decls[d])]
       /\ (last'.op = "reset_all") =>
            /\ ns' = ns
            /\ Len(decls') = Len(decls)
            /\ \A n \in DictKeys(ns) :
                  LET d == DictGet(ns, n) IN
                  decls'[d] = IF decls[d].kind = "variable" THEN decls[d]
                              ELSE Uncompiled(decls[d])]_vars

\* a compiled declaration was reset while the other name stayed compiled
C12_Witness ==
    /\ last.op = "reset" /\ last.ok /\ last.prev # NotYet
    /\ ~DeclOf(last.name).compiled
    /\ \E n \in DictKeys(ns) : n # last.name /\ DeclOf(n).compiled

CompilingOps == {"compile", "compile_all", "var_type"}
ResettingOps == {"reset", "reset_all"}

\* the step of one declaration object from rec to next under the call op
CompiledStep(rec, next, op) ==
    /\ (next.result # rec.result) => (next.compiled # rec.compiled)
    /\ (~rec.compiled /\ next.compiled) => op \in CompilingOps
    /\ (rec.compiled /\ ~next.compiled) =>
          (op \in ResettingOps /\ next.result = PyNone)

\* C13: an Uncompiled declaration holds no cached result; a declaration's
\* cached result changes only when its flag does; the flag goes from
\* Uncompiled to Compiled only in a compiling call and back only in a reset;
\* and a compile(n) or var_type that raises leaves the declaration registered
\* under n Uncompiled with no cached result.
C13_CompiledStateMachine ==
    /\ [](\A d \in 1..Len(decls) :
              ~decls[d].compiled => decls[d].result = PyNone)
    /\ [][/\ \A d \in 1..Len(decls) :
                CompiledStep(decls[d], decls'[d], last'.op)
           /\ (/\ last'.op \in {"compile", "var_type"}
               /\ ~last'.ok
               /\ last'.name \in DictKeys(ns)) =>
                 LET rec == decls'[DictGet(ns, last'.name)] IN
                 ~rec.compiled /\ rec.result = PyNone]_vars

\* compile(n) of a well-built registered declaration raised
C13_Witness ==
    /\ last.op = "compile" /\ ~last.ok
    /\ Registered(last.name)
    /\ DeclOf(last.name).inited
    /\ ~DeclOf(last.name).compiled

Tokenized == plast.op = "parse_line_units"

\* the parenthesis depth after the first i characters of line
Depth(line, i) ==
    Cardinality({j \in 1..i : line[j] = "("})
        - Cardinality({j \in 1..i : line[j] = ")"})

\* every parenthesis of line closes one opened before it and none is left
Balanced(line) ==
    /\ \A i \in 1..Len(line) : Depth(line, i) >= 0
    /\ Depth(line, Len(line)) = 0

\* the line starts with its tag; the tag ends before the first whitespace
Tagged(line) == Len(line) > 0 /\ line[1] = "@"
TagEnd(line) ==
    IF \E i \in 1..Len(line) : line[i] \in Whitespace
    THEN CHOOSE i \in 1..Len(line) :
            /\ line[i] \in Whitespace
            /\ \A j \in 1..(i - 1) : line[j] \notin Whitespace
    ELSE Len(line) + 1

RECURSIVE SplitFrom(_, _, _, _)
\* the values from position i on: whitespace at depth zero ends the token
\* cur, whitespace at a depth above zero is part of it, the end of the line
\* ends the last one
SplitFrom(line, i, cur, acc) ==
    LET ended == IF Len(cur) = 0 THEN acc ELSE Append(acc, cur) IN
    IF i > Len(line) THEN ended
    ELSE IF line[i] \in Whitespace /\ Depth(line, i) = 0
    THEN SplitFrom(line, i + 1, <<>>, ended)
    ELSE SplitFrom(line, i + 1, Append(cur, line[i]), acc)

\* C14: for a line with balanced parentheses that starts with its tag, the
\* values are the pieces of the text after the tag cut at every whitespace of
\* depth zero and at no whitespace of a depth above zero, in line order.
C14_DepthZeroSplits ==
    (Tokenized /\ Tagged(plast.line) /\ Balanced(plast.line)) =>
        plast.unit.values =
            SplitFrom(plast.line, TagEnd(plast.line) + 1, <<>>, <<>>)

\* the characters of a text that are not whitespace, in order
NonWhitespace(text) == SelectSeq(text, LAMBDA c : c \notin Whitespace)

\* C15: for every line, balanced or not, every character that is not
\* whitespace appears, in order, in the tag or in exactly one value, and an
\* empty line yields no values.
C15_NoTokenDropped ==
    Tokenized =>
        /\ NonWhitespace(plast.line) =
              plast.unit.tag \o NonWhitespace(Concat(plast.unit.values))
        /\ (plast.line = <<>> => plast.unit.values = <<>>)

Scanned == plast.op = "scrap_file_declarations"

\* optional leading whitespace, then the opening marker
Opens(line) ==
    \E k \in 0..Len(line) :
        /\ \A j \in 1..k : line[j] \in Whitespace
        /\ StartsWith(SubSeq(line, k + 1, Len(line)), <<"/", "*">>)

\* the line ends with the closing marker
EndsComment(line) ==
    Len(line) >= 2 /\ SubSeq(line, Len(line) - 1, Len(line)) = <<"*", "/">>

\* the first opening line of the source is line i, nothing before it closes
\* a comment, it does not close on its own line, and j is the next closing
\* line after it
FirstRegion(lines, i, j) ==
    /\ i \in 1..Len(lines) /\ j \in (i + 1)..Len(lines)
    /\ Opens(lines[i]) /\ ~EndsComment(lines[i])
    /\ \A k \in 1..(i - 1) : ~Opens(lines[k]) /\ ~EndsComment(lines[k])
    /\ CommentEnd(lines[j])
    /\ \A k \in (i + 1)..(j - 1) : ~EndsComment(lines[k])

\* C16: when the first opening line of a source is line i and the next
\* closing line is line j, the first buffer handed to the Builder holds the
\* lines i to j, the closing marker stripped from the last.
C16_OpenBuffers ==
    Scanned =>
        \A i, j \in 1..Len(plast.lines) :
            FirstRegion(plast.lines, i, j) =>
                /\ Len(plast.handed) >= 1
                /\ plast.handed[1] =
                      [SubSeq(plast.lines, i, j) EXCEPT ![j - i + 1] =
                          StripCommentEnd(@)]

RECURSIVE RegionsFrom(_, _, _)
\* the comment regions of the lines left, found with cur the lines of the
\* region that is open (none when cur is empty): a region opens at a line
\* that starts with the opening marker and closes at the next line that ends
\* with the closing marker, which can be the same line; plain tells that no
\* closing marker came outside a region
RegionsFrom(lines, cur, acc) ==
    IF Len(lines) = 0 THEN [plain |-> TRUE, regions |-> acc]
    ELSE LET line == lines[1]
             held == Append(cur, line)
             closed == [held EXCEPT ![Len(held)] = StripCommentEnd(@)]
         IN  IF Len(cur) = 0 /\ ~CommentStart(line)
             THEN IF EndsComment(line) \/ Opens(line)
                  THEN [plain |-> FALSE, regions |-> acc]
                  ELSE RegionsFrom(Tail(lines), <<>>, acc)
             ELSE IF EndsComment(line)
             THEN RegionsFrom(Tail(lines), <<>>, Append(acc, closed))
             ELSE RegionsFrom(Tail(lines), held, acc)

\* C17: for a source whose comment markers start their lines, the buffers
\* handed to the Builder are the comment regions of the source, one buffer
\* for each region and in order, a region that opens and closes on one line
\* included.
C17_OneRegionPerBuffer ==
    LET r == RegionsFrom(plast.lines, <<>>, <<>>) IN
    (Scanned /\ plast.ok /\ r.plain) => plast.handed = r.regions

\* the kind a kind tag stands for
TypeNameOfTag(kind) ==
    IF kind = "typedef" THEN w_typedef ELSE TypeNameOf(kind)

\* the declarations a source of one block leaves: one, under the name S
OneDeclared(kind) ==
    /\ Len(declarations) = 1
    /\ declarations[1][1] = PyStr(s_S)
    /\ declarations[1][2].kind = kind

\* C18: a well-formed block of each of the six kinds, with a name and the
\* fields the kind cannot do without, is classified as that kind and leaves
\* exactly one declaration of that kind under its name.
C18_SixKindsClassified ==
    \A tag \in KindTags :
        (Scanned /\ plast.lines = KindSource(tag)) =>
            (plast.ok /\ \E kind \in {"function", "struct", "enum", "flags",
                                       "variable", "typedef"} :
                            TypeNameOfTag(kind) = tag /\ OneDeclared(kind))

\* compile(f) was called on the well-built Function or Typedef registered
\* under f, which refers to the name S, and found it Uncompiled
FirstCompileOfReferrer ==
    /\ last.op = "compile" /\ last.name = s_f /\ last.prev = NotYet
    /\ Registered(s_f) /\ DeclOf(s_f).inited
    /\ \/ DeclOf(s_f).kind = "function"
       \/ DeclOf(s_f).kind = "typedef" /\ DeclOf(s_f).type = PyStr(s_S)

\* the declaration registered under S is one that compiles
ReferenceCompiles ==
    /\ Registered(s_S) /\ DeclOf(s_S).inited
    /\ \/ DeclOf(s_S).kind = "struct"
       \/ DeclOf(s_S).kind \in {"enum", "flags"} /\ DeclOf(s_S).type.k = "str"

\* C19: the first compile(f) of a declaration that refers to S succeeds when
\* S is registered by then, whichever of the two was registered first, and
\* its result is built from what S compiles to; when S is not registered it
\* raises NameResolutionError and leaves f Uncompiled with no cached result.
C19_ForwardReferences ==
    FirstCompileOfReferrer =>
        /\ ReferenceCompiles =>
              /\ last.ok
              /\ DeclOf(s_f).compiled /\ DeclOf(s_f).result = last.val
              /\ DeclOf(s_S).compiled
              /\ IF DeclOf(s_f).kind = "typedef"
                 THEN last.val = DeclOf(s_S).result
                 ELSE /\ last.val.k = "funcptr"
                      /\ last.val.restype = BASE_C_TYPES[s_int]
                      /\ last.val.argtypes =
                            <<CPtr(unwrap(DeclOf(s_S).result))>>
        /\ ~Registered(s_S) =>
              /\ ~last.ok /\ last.err.type = "NamespaceError"
              /\ ~DeclOf(s_f).compiled /\ DeclOf(s_f).result = PyNone

\* a Function registered before the struct it refers to was compiled
C19_Witness ==
    /\ FirstCompileOfReferrer /\ ReferenceCompiles /\ last.ok
    /\ DeclOf(s_f).kind = "function" /\ DeclOf(s_S).kind = "struct"
    /\ DictGet(ns, s_f) < DictGet(ns, s_S)

\* the declarations the names of the namespace items are bound to
Current(items) == {items[i][2] : i \in 1..Len(items)}

\* the cached result v is none, or a ctypes type of no declaration, or the
\* compile result of a declaration bound in items
BuiltFromCurrent(items, v) ==
    v.k = "wrapper" => v.wrapper \in Current(items)

\* C20: after reset_compilations() and then a compile_all() that returns
\* without error, the cached result of every registered declaration, each
\* Variable's memoized type included, is built from the declarations
\* registered then, and none is the compile result of a replaced declaration.
C20_ReloadPicksUpChanges ==
    [][(last.op = "reset_all" /\ last'.op = "compile_all" /\ last'.ok) =>
          \A d \in Current(ns') :
              BuiltFromCurrent(ns', decls'[d].result)]_vars

\* the type name s without its pointer suffix
Stem(s) ==
    IF Len(s) > 0 /\ s[Len(s)] = "*" THEN SubSeq(s, 1, Len(s) - 1) ELSE s

\* the one type name the struct or typedef rec refers to
RefOf(rec) ==
    IF rec.kind = "struct" THEN rec.members[1][2].s ELSE rec.type.s

RECURSIVE RefersOn(_, _, _, _)
\* following the references from the type name s through the declarations
\* of items that are not compiled, k more declarations are met: with k the
\* number of declarations, one of them is met twice
RefersOn(items, ds, s, k) ==
    LET n == Stem(s) IN
    IF n \in DOMAIN BASE_C_TYPES \/ n \notin DictKeys(items) THEN FALSE
    ELSE LET rec == ds[DictGet(items, n)] IN
         IF rec.compiled THEN FALSE
         ELSE IF k = 0 THEN TRUE
         ELSE RefersOn(items, ds, RefOf(rec), k - 1)

\* the references from the type name s run into a cycle
Cyclic(items, ds, s) == RefersOn(items, ds, s, Len(ds))

ClosingLine(line) ==
    /\ Len(line) >= 2
    /\ SubSeq(line, Len(line) - 1, Len(line)) = <<"*", "/">>
    /\ \A j \in 1..(Len(line) - 2) : line[j] \in Whitespace

\* C22: when the first line of a source is a closing-marker line, which no
\* block is open for, the scan goes as the scan of the lines after it: the
\* line hands nothing to the Builder and raises no error, and the blocks
\* that follow are extracted.
C22_StrayCloseIgnored ==
    (Scanned /\ Len(plast.lines) >= 1 /\ ClosingLine(plast.lines[1])) =>
        LET rest == scrap_file_declarations(<<>>, Tail(plast.lines)) IN
        /\ plast.ok = rest.ok
        /\ plast.err = rest.err
        /\ plast.handed = rest.handed
        /\ declarations = rest.declarations

\* the line carries none of the six declaration-kind tags
NoKindTag(line) == \A tag \in KindTags : ~Contains(line, <<"@">> \o tag)

\* the source is one comment block, opened by its first line and closed by
\* its last, and no line of it carries a declaration-kind tag
UntaggedBlock(lines) ==
    /\ Len(lines) >= 2
    /\ lines[1] = l_open /\ lines[Len(lines)] = l_close
    /\ \A k \in 2..(Len(lines) - 1) :
          NoKindTag(lines[k]) /\ ~EndsComment(lines[k])

\* C23: a comment block with no declaration-kind tag on any line, a block
\* of empty lines included, raises no error and leaves the declarations as
\* they were, with none registered.
C23_UntaggedBlockIgnored ==
    (Scanned /\ UntaggedBlock(plast.lines)) =>
        /\ plast.ok
        /\ declarations = <<>>

====
